---- MODULE Spec2Model ----
(***************************************************************************)
(* Model of dashboard.py: the cached load_data pipeline (column inference, *)
(* derived calendar fields, row filtering) and the Streamlit script run    *)
(* that consumes its table on one of four pages.                           *)
(*                                                                         *)
(* Column names are sequences of one-character strings, so that the       *)
(* substring tests of the code are computed, not assumed.                  *)
(* Numbers are rationals p/q in lowest terms with q in {1, 2}, so that the *)
(* division by two of the mean temperature is exact.                       *)
(***************************************************************************)
EXTENDS Integers, Sequences, FiniteSets, TLC

(***************************************************************************)
(* Bounds of the model.                                                    *)
(***************************************************************************)
\* longest header of the files whose header is varied
MaxCols == 3
\* most data rows of the files whose rows are varied
MaxRows == 2
\* most executions of the body of load_data that are followed
MaxParses == 2

(***************************************************************************)
(* Strings: str.lower() and the `in` substring test.                       *)
(***************************************************************************)
\* str.lower() on the letters A-Z
LowerMap ==
    [c \in {"A","B","C","D","E","F","G","H","I","J","K","L","M",
            "N","O","P","Q","R","S","T","U","V","W","X","Y","Z"} |->
        CASE c = "A" -> "a" [] c = "B" -> "b" [] c = "C" -> "c" [] c = "D" -> "d"
          [] c = "E" -> "e" [] c = "F" -> "f" [] c = "G" -> "g" [] c = "H" -> "h"
          [] c = "I" -> "i" [] c = "J" -> "j" [] c = "K" -> "k" [] c = "L" -> "l"
          [] c = "M" -> "m" [] c = "N" -> "n" [] c = "O" -> "o" [] c = "P" -> "p"
          [] c = "Q" -> "q" [] c = "R" -> "r" [] c = "S" -> "s" [] c = "T" -> "t"
          [] c = "U" -> "u" [] c = "V" -> "v" [] c = "W" -> "w" [] c = "X" -> "x"
          [] c = "Y" -> "y" [] c = "Z" -> "z"]

LowerChar(c) == IF c \in DOMAIN LowerMap THEN LowerMap[c] ELSE c

\* col.lower()
RECURSIVE lower(_)
lower(s) == IF s = <<>> THEN <<>> ELSE <<LowerChar(Head(s))>> \o lower(Tail(s))

\* pat in s
Contains(s, pat) ==
    \E i \in 1..(Len(s) - Len(pat) + 1) : SubSeq(s, i, i + Len(pat) - 1) = pat

\* any(x in col.lower() for x in pats)
ContainsAny(s, pats) == \E low \in {lower(s)} : \E p \in pats : Contains(low, p)

\* [col for col in cols if keep(col)], order preserved
RECURSIVE Filter(_, _)
Filter(cols, pats) ==
    IF cols = <<>> THEN <<>>
    ELSE IF ContainsAny(Head(cols), pats)
         THEN <<Head(cols)>> \o Filter(Tail(cols), pats)
         ELSE Filter(Tail(cols), pats)

Range(s) == {s[i] : i \in DOMAIN s}

\* [F(v) for v in vals]
RECURSIVE Map(_, _)
Map(F(_), vals) == IF vals = <<>> THEN <<>> ELSE <<F(Head(vals))>> \o Map(F, Tail(vals))

(***************************************************************************)
(* The substrings the code looks for.                                      *)
(***************************************************************************)
DatePatterns == {<<"d","a","t","e">>, <<"t","i","m","e">>}

TempPatterns == {<<"t","e","m","p">>, <<"t","_">>, <<"t","x">>, <<"t","n">>, <<"t","g">>}

PrecipPatterns == {<<"p","r","e","c","i","p">>, <<"r","a","i","n">>, <<"r","r">>,
                   <<"p","l","u","v","i","o">>, <<"p","l","u","i","e">>}

MeanPatterns == {<<"m","e","a","n">>, <<"a","v","g">>, <<"t","g">>, <<"m","o","y">>}

MaxPatterns == {<<"m","a","x">>, <<"t","x">>}

MinPatterns == {<<"m","i","n">>, <<"t","n">>}

(***************************************************************************)
(* The columns load_data and the pages add to the table.                   *)
(***************************************************************************)
cDate == <<"D","a","t","e">>
cYear == <<"Y","e","a","r">>
cMonth == <<"M","o","n","t","h">>
cDay == <<"D","a","y">>
cMonth_Name == <<"M","o","n","t","h","_","N","a","m","e">>
cSeason == <<"S","e","a","s","o","n">>
cTemp_Mean == <<"T","e","m","p","_","M","e","a","n">>
cTemp_Max == <<"T","e","m","p","_","M","a","x">>
cTemp_Min == <<"T","e","m","p","_","M","i","n">>
cPrecipitation == <<"P","r","e","c","i","p","i","t","a","t","i","o","n">>
cPeriod == <<"P","e","r","i","o","d">>
cDecade == <<"D","e","c","a","d","e">>

(***************************************************************************)
(* Values of the cells of a table.                                         *)
(***************************************************************************)
\* NaN / NaT / an empty field: what isna() is true of
NA == [k |-> "na"]

\* a string that is neither a number nor a date
Txt == [k |-> "txt"]

\* a string that holds the date y-m-d
DateStr(y, m, d) == [k |-> "datestr", y |-> y, m |-> m, d |-> d]

\* the integer n
Num(n) == [k |-> "num", p |-> n, q |-> 1]

\* a Timestamp: the day y-m-d plus ns nanoseconds
Ts(y, m, d, ns) == [k |-> "ts", y |-> y, m |-> m, d |-> d, ns |-> ns]

\* a string of the program
Str(s) == [k |-> "str", s |-> s]

IsNum(v) == v.k = "num"

\* a + b on two cells of numeric columns (NaN propagates)
Add(a, b) == IF IsNum(a) /\ IsNum(b) THEN Num(a.p + b.p) ELSE NA

\* a / 2 on a cell of a numeric column
Div2(a) ==
    IF ~IsNum(a) THEN NA
    ELSE IF a.p % 2 = 0 THEN Num(a.p \div 2)
    ELSE [k |-> "num", p |-> a.p, q |-> 2]

(***************************************************************************)
(* Tables (DataFrame): cols is the ordered header, rows the rows in order, *)
(* each with its index label idx and its cells val[col].                   *)
(***************************************************************************)
Columns(t) == Range(t.cols)

\* df[col] as the sequence of its cells
Col(t, c) == Map(LAMBDA r : r.val[c], t.rows)

\* the rows with vals[i] as the cell of column c of the i-th row
RECURSIVE PutCells(_, _, _)
PutCells(rows, c, vals) ==
    IF rows = <<>> THEN <<>>
    ELSE <<[idx |-> Head(rows).idx, val |-> (c :> Head(vals)) @@ Head(rows).val]>>
         \o PutCells(Tail(rows), c, Tail(vals))

\* df[col] = vals: replaces the column in place or appends it to the header
SetCol(t, c, vals) ==
    [cols |-> IF c \in Columns(t) THEN t.cols ELSE Append(t.cols, c),
     rows |-> PutCells(t.rows, c, vals)]

\* an exception raised inside the try block
Raise(e) == [exc |-> e]

\* the value of an expression that can raise
Ok(v) == [val |-> v]

Raised(x) == "exc" \in DOMAIN x

(***************************************************************************)
(* pd.read_csv: the file is its header and its rows of fields; a field is  *)
(* empty (NA), an integer literal Num(n), a date string or another string. *)
(* A column with a string field is an object column: its integer literals  *)
(* stay strings.                                                           *)
(***************************************************************************)
NoFile == [missing |-> TRUE]

read_csv(f) ==
    LET IsObject(j) == \E i \in DOMAIN f.rows : f.rows[i][j].k \in {"txt", "datestr"}
        Pos(c) == CHOOSE j \in DOMAIN f.header : f.header[j] = c
        Cell(i, j) == IF IsObject(j) /\ f.rows[i][j].k = "num" THEN Txt ELSE f.rows[i][j]
    IN  [cols |-> f.header,
         rows |-> [i \in DOMAIN f.rows |->
                     [idx |-> i - 1,
                      val |-> [c \in Range(f.header) |-> Cell(i, Pos(c))]]]]

(***************************************************************************)
(* pd.to_datetime(series), errors='raise' (the default): a missing value   *)
(* is NaT, a date string its Timestamp, a number that many nanoseconds     *)
(* after 1970-01-01 (numbers here are small and not negative), and any     *)
(* other string raises for the whole series.                               *)
(***************************************************************************)
to_datetime_cell(v) ==
    CASE v.k = "datestr" -> Ts(v.y, v.m, v.d, 0)
      [] v.k = "num"     -> Ts(1970, 1, 1, v.p)
      [] v.k = "ts"      -> v
      [] OTHER           -> NA

\* errors='coerce' instead of the default: a bad string becomes NaT
to_datetime_coerce(vals) == Ok(Map(to_datetime_cell, vals))

to_datetime(vals) ==
    IF \E i \in DOMAIN vals : vals[i].k \in {"txt", "str"}
    THEN Raise("ValueError")
    ELSE Ok(Map(to_datetime_cell, vals))

(***************************************************************************)
(* load_data, lines 33-38: the date column.                                *)
(***************************************************************************)
\* [col for col in df.columns if 'date' in col.lower() or 'time' in col.lower()]
date_cols(t) == Filter(t.cols, DatePatterns)

\* date_cols[-1] instead of date_cols[0]
DateSource_last(t) ==
    IF date_cols(t) # <<>> THEN date_cols(t)[Len(date_cols(t))] ELSE t.cols[1]

\* df.iloc[:, -1] instead of df.iloc[:, 0]
DateSource_fallback_last(t) ==
    IF date_cols(t) # <<>> THEN date_cols(t)[1] ELSE t.cols[Len(t.cols)]

\* date_cols[0] if date_cols else df.iloc[:, 0]
DateSource(t) == IF date_cols(t) # <<>> THEN date_cols(t)[1] ELSE t.cols[1]

WithDate(t) ==
    LET parsed == to_datetime(Col(t, DateSource(t)))
    IN  IF Raised(parsed) THEN parsed ELSE SetCol(t, cDate, parsed.val)

(***************************************************************************)
(* load_data, lines 41-50: the calendar fields.                            *)
(***************************************************************************)
MonthNames == <<"January", "February", "March", "April", "May", "June", "July",
                "August", "September", "October", "November", "December">>

\* the dict with December among the fall months
SeasonMap_december_fall ==
    [m \in 1..12 |->
        CASE m \in {1, 2}         -> "Winter"
          [] m \in {3, 4, 5}      -> "Spring"
          [] m \in {6, 7, 8}      -> "Summer"
          [] m \in {9, 10, 11, 12} -> "Fall"]

\* the dict of df['Month'].map
SeasonMap ==
    [m \in 1..12 |->
        CASE m \in {12, 1, 2} -> "Winter"
          [] m \in {3, 4, 5}  -> "Spring"
          [] m \in {6, 7, 8}  -> "Summer"
          [] m \in {9, 10, 11} -> "Fall"]

\* Series.map(dict) on one cell: a key that is not in the dict gives NaN
SeasonOf(month) ==
    IF IsNum(month) /\ month.q = 1 /\ month.p \in DOMAIN SeasonMap
    THEN Str(SeasonMap[month.p])
    ELSE NA

dt_year(v) == IF v.k = "ts" THEN Num(v.y) ELSE NA

dt_month(v) == IF v.k = "ts" THEN Num(v.m) ELSE NA

dt_day(v) == IF v.k = "ts" THEN Num(v.d) ELSE NA

strftime_B(v) == IF v.k = "ts" THEN Str(MonthNames[v.m]) ELSE NA

WithCalendar(t) ==
    LET t1 == SetCol(t, cYear, Map(dt_year, Col(t, cDate)))
        t2 == SetCol(t1, cMonth, Map(dt_month, Col(t1, cDate)))
        t3 == SetCol(t2, cDay, Map(dt_day, Col(t2, cDate)))
        t4 == SetCol(t3, cMonth_Name, Map(strftime_B, Col(t3, cDate)))
    IN  SetCol(t4, cSeason, Map(SeasonOf, Col(t4, cMonth)))

(***************************************************************************)
(* load_data, lines 53-81: temperature and precipitation columns.          *)
(***************************************************************************)
\* line 53
temp_cols(t) == Filter(t.cols, TempPatterns)

\* line 56
precip_cols(t) == Filter(t.cols, PrecipPatterns)

\* line 61
temp_mean_cols(tcols) == Filter(tcols, MeanPatterns)

\* line 71
temp_max_cols(tcols) == Filter(tcols, MaxPatterns)

\* line 76
temp_min_cols(tcols) == Filter(tcols, MinPatterns)

\* (df[a] + df[b]) / 2: arithmetic on a column that holds a string raises
Average(t, a, b) ==
    IF \E i \in DOMAIN t.rows :
          \/ t.rows[i].val[a].k \notin {"num", "na"}
          \/ t.rows[i].val[b].k \notin {"num", "na"}
    THEN Raise("TypeError")
    ELSE Ok(Map(LAMBDA r : Div2(Add(r.val[a], r.val[b])), t.rows))

\* the average of the first two columns even when a mean column exists
TempMeanValues_no_preference(t, tcols) ==
    IF Len(tcols) >= 2 THEN Average(t, tcols[1], tcols[2]) ELSE Ok(Col(t, tcols[1]))

\* lines 61-68: the values of Temp_Mean, tcols the temp_cols of t, not empty
TempMeanValues(t, tcols) ==
    LET mean_cols == temp_mean_cols(tcols)
    IN  IF mean_cols # <<>> THEN Ok(Col(t, mean_cols[1]))
        ELSE IF Len(tcols) >= 2 THEN Average(t, tcols[1], tcols[2])
        ELSE Ok(Col(t, tcols[1]))

\* the last matching column instead of the first
WithMaxMin_last_match(t, tcols) ==
    LET max_cols == temp_max_cols(tcols)
        min_cols == temp_min_cols(tcols)
        t1 == IF max_cols # <<>>
              THEN SetCol(t, cTemp_Max, Col(t, max_cols[Len(max_cols)])) ELSE t
    IN  IF min_cols # <<>>
        THEN SetCol(t1, cTemp_Min, Col(t1, min_cols[Len(min_cols)])) ELSE t1

\* lines 70-78, on the table that has Temp_Mean
WithMaxMin(t, tcols) ==
    LET max_cols == temp_max_cols(tcols)
        min_cols == temp_min_cols(tcols)
        t1 == IF max_cols # <<>> THEN SetCol(t, cTemp_Max, Col(t, max_cols[1])) ELSE t
    IN  IF min_cols # <<>> THEN SetCol(t1, cTemp_Min, Col(t1, min_cols[1])) ELSE t1

\* lines 59-78, tcols the temp_cols of line 53
WithTemps(t, tcols) ==
    IF tcols = <<>> THEN t
    ELSE LET mean == TempMeanValues(t, tcols)
         IN  IF Raised(mean) THEN mean
             ELSE WithMaxMin(SetCol(t, cTemp_Mean, mean.val), tcols)

\* lines 80-81, pcols the precip_cols of line 56
WithPrecip(t, pcols) ==
    IF pcols # <<>> THEN SetCol(t, cPrecipitation, Col(t, pcols[1])) ELSE t

\* df.dropna() without the subset: a row with any missing cell is dropped
dropna_any(t) ==
    [cols |-> t.cols,
     rows |-> SelectSeq(t.rows, LAMBDA r : \A c \in Columns(t) : r.val[c].k # "na")]

\* df.dropna(subset=['Date']): the rows keep their index labels
dropna_Date(t) ==
    [cols |-> t.cols, rows |-> SelectSeq(t.rows, LAMBDA r : r.val[cDate].k # "na")]

(***************************************************************************)
(* The body of load_data, lines 29-86: the table it returns, or the        *)
(* exception its try block catches.                                        *)
(***************************************************************************)
LoadBody(f) ==
    IF "missing" \in DOMAIN f THEN Raise("FileNotFoundError")
    ELSE LET dated == WithDate(read_csv(f))
         IN  IF Raised(dated) THEN dated
             ELSE LET cal == WithCalendar(dated)
                      tcols == temp_cols(cal)
                      pcols == precip_cols(cal)
                      temps == WithTemps(cal, tcols)
                  IN  IF Raised(temps) THEN temps
                      ELSE dropna_Date(WithPrecip(temps, pcols))

(***************************************************************************)
(* The input files that are explored.                                      *)
(***************************************************************************)
nDATE == <<"D","A","T","E">>
nTime == <<"T","i","m","e">>
nTX == <<"T","X">>
nTN == <<"T","N">>
nTG == <<"T","G">>
nRR == <<"R","R">>
nPluie == <<"P","l","u","i","e">>
nID == <<"I","D">>

Pool == {nDATE, cDate, nTime, nTX, nTN, nTG, nRR, nPluie, nID}

\* the sequences of at most n names of the pool
RECURSIVE Headers(_)
Headers(n) ==
    IF n = 0 THEN {<<>>}
    ELSE Headers(n - 1) \cup
         {Append(h, c) : h \in {x \in Headers(n - 1) : Len(x) = n - 1}, c \in Pool}

DistinctNames(h) == \A i, j \in DOMAIN h : i # j => h[i] # h[j]

\* every header, over two rows of numbers that differ from column to column
HeaderFiles ==
    {[header |-> h,
      rows |-> <<[j \in DOMAIN h |-> Num(10 * j + 1)],
                 [j \in DOMAIN h |-> Num(10 * j + 4)]>>] :
        h \in {x \in Headers(MaxCols) : x # <<>> /\ DistinctNames(x)}}

ScenarioHeader == <<nDATE, nTX, nTN, nRR>>

\* the header of the scenario of the specification, over every table of at
\* most MaxRows rows: the date present, empty or bad, a temperature and the
\* precipitation present or empty
RowCells ==
    {<<d, tx, Num(0), rr>> : d \in {NA, Txt, DateStr(2020, 1, 1), DateStr(2004, 7, 15)},
                             tx \in {NA, Num(10)}, rr \in {NA, Num(5)}}

RECURSIVE RowSeqs(_)
RowSeqs(n) ==
    IF n = 0 THEN {<<>>}
    ELSE RowSeqs(n - 1) \cup
         {Append(rs, r) : rs \in {x \in RowSeqs(n - 1) : Len(x) = n - 1}, r \in RowCells}

RowFiles == {[header |-> ScenarioHeader, rows |-> rs] : rs \in RowSeqs(MaxRows)}

\* the same header over one row: every month of two years, and strings in
\* the temperature columns
CalendarFiles ==
    {[header |-> ScenarioHeader, rows |-> <<<<d, tx, tn, Num(5)>>>>] :
        d \in {DateStr(y, m, 1) : y \in {2004, 2005}, m \in 1..12} \cup {NA, Txt},
        tx \in {NA, Num(10), Txt}, tn \in {NA, Num(5), Txt}}

nT_max == <<"T","_","m","a","x">>
nT_min == <<"T","_","m","i","n">>
nTmax == <<"T","m","a","x">>

\* names for the maximum and the minimum: two temperature columns for each,
\* and Tmax, which no temperature pattern of line 53 matches
ExtremePool == {nT_max, nTX, nT_min, nTN, nTmax}

\* the sequences of at most n names of that pool
RECURSIVE ExtremeHeaders(_)
ExtremeHeaders(n) ==
    IF n = 0 THEN {<<>>}
    ELSE ExtremeHeaders(n - 1) \cup
         {Append(h, c) : h \in {x \in ExtremeHeaders(n - 1) : Len(x) = n - 1},
                         c \in ExtremePool}

\* every such header, over the two rows of numbers of HeaderFiles
ExtremeFiles ==
    {[header |-> h,
      rows |-> <<[j \in DOMAIN h |-> Num(10 * j + 1)],
                 [j \in DOMAIN h |-> Num(10 * j + 4)]>>] :
        h \in {x \in ExtremeHeaders(MaxCols) : x # <<>> /\ DistinctNames(x)}}

Files == HeaderFiles \cup RowFiles \cup CalendarFiles \cup ExtremeFiles \cup {NoFile}

(***************************************************************************)
(* State.                                                                  *)
(***************************************************************************)
VARIABLES
    file,      \* the CSV file on disk, or NoFile
    cache,     \* the memo of @st.cache_data for load_data: None or its table
    parses,    \* how many times the body of load_data has run
    pc,        \* "idle", "loaded", "done", "stopped" (st.stop), "crashed"
    df,        \* the module-level df of the current script run, or None
    page,      \* the page chosen in the sidebar in the current run
    rendered,  \* the elements the current run has put on the page
    exc,       \* the exception that ended the current run, or "none"
    messages,  \* the st.error / st.info boxes of the current run
    source     \* what answered load_data() in the current run: "body", "memo"

vars == <<file, cache, parses, pc, df, page, rendered, exc, messages, source>>

None == [none |-> TRUE]

IsNone(x) == "none" \in DOMAIN x

Init ==
    /\ file \in Files
    /\ cache = None
    /\ parses = 0
    /\ pc = "idle"
    /\ df = None
    /\ page = "none"
    /\ rendered = {}
    /\ exc = "none"
    /\ messages = <<>>
    /\ source = "none"

(***************************************************************************)
(* A script run, lines 1-97: Streamlit runs the script from the top; the   *)
(* call df = load_data() is answered from the memo of @st.cache_data when  *)
(* it holds a value, and by the body otherwise. A body that ends in        *)
(* st.stop() stores nothing in the memo.                                   *)
(***************************************************************************)
\* load_data without its decorator
CacheHit_never == FALSE

\* @st.cache_data, line 26: the call has a stored result
CacheHit == ~IsNone(cache)

\* lines 88-94: what the except clauses show
ErrorBoxes(e) ==
    IF e = "FileNotFoundError"
    THEN <<"error: Fichier non trouve">>
    ELSE <<"error: Erreur lors du chargement des donnees", "info: Structure detectee">>

\* without st.stop(): load_data returns None and the script goes on
AfterLoadError_continues == "loaded"

\* lines 90 and 94: st.stop() ends the script run
AfterLoadError == "stopped"

load_data ==
    /\ pc # "loaded"
    /\ page' = "none"
    /\ rendered' = {}
    /\ exc' = "none"
    /\ file' = file
    /\ IF CacheHit
       THEN /\ df' = cache
            /\ source' = "memo"
            /\ pc' = "loaded"
            /\ messages' = <<>>
            /\ UNCHANGED <<cache, parses>>
       ELSE /\ parses < MaxParses
            /\ parses' = parses + 1
            /\ source' = "body"
            /\ LET result == LoadBody(file)
               IN  IF Raised(result)
                   THEN /\ messages' = ErrorBoxes(result.exc)
                        /\ pc' = AfterLoadError
                        /\ df' = None
                        /\ cache' = cache
                   ELSE /\ messages' = <<>>
                        /\ pc' = "loaded"
                        /\ df' = result
                        /\ cache' = result

(***************************************************************************)
(* The pages, lines 118-617. A run context is the df of the run, the       *)
(* elements shown so far, the script variables bound so far and the        *)
(* exception raised, after which nothing more of the script runs.          *)
(***************************************************************************)
Ctx(t) == [df |-> t, rendered |-> {}, names |-> {}, exc |-> "none"]

\* st.markdown / st.plotly_chart / st.metric of an element
Show(c, id) == IF c.exc # "none" THEN c ELSE [c EXCEPT !.rendered = @ \cup {id}]

\* an element computed from df[col]: KeyError when the column is absent
Chart(c, col, id) ==
    IF c.exc # "none" THEN c
    ELSE IF col \notin Columns(c.df) THEN [c EXCEPT !.exc = "KeyError"]
    ELSE Show(c, id)

\* name = ... : binds a script variable
Bind(c, name) == IF c.exc # "none" THEN c ELSE [c EXCEPT !.names = @ \cup {name}]

\* a text that formats a script variable: NameError when it is not bound
Format(c, name, id) ==
    IF c.exc # "none" THEN c
    ELSE IF name \notin c.names THEN [c EXCEPT !.exc = "NameError"]
    ELSE Show(c, id)

\* df[col] = f(df['Year']) on the df of the run
Derive(c, col, f(_)) ==
    IF c.exc # "none" THEN c
    ELSE IF cYear \notin Columns(c.df) THEN [c EXCEPT !.exc = "KeyError"]
    ELSE [c EXCEPT !.df = SetCol(c.df, col, Map(f, Col(c.df, cYear)))]

\* 'Temp_Mean' in df.columns
HasTempMean(c) == cTemp_Mean \in Columns(c.df)

\* the precipitation sections without their presence check
HasPrecipitation_unchecked(c) == TRUE

\* 'Precipitation' in df.columns
HasPrecipitation(c) == cPrecipitation \in Columns(c.df)

\* line 219: lambda x: '1989-2004' if x <= 2004 else '2005-2024'
PeriodOf(year) == IF IsNum(year) /\ year.p <= 2004 THEN Str("1989-2004") ELSE Str("2005-2024")

\* line 452: (df['Year'] // 10) * 10
DecadeOf(year) == IF IsNum(year) THEN Num((year.p \div 10) * 10) ELSE NA

(***************************************************************************)
(* Page "2. ANALYSIS", lines 128-341.                                      *)
(***************************************************************************)
\* lines 131-160
P2_TemperatureTrend(c) ==
    IF HasTempMean(c) THEN Bind(Chart(c, cTemp_Mean, "fig1"), "temp_change") ELSE c

\* lines 162-168
P2_TrendText(c) == Format(c, "temp_change", "text_temperature_trend")

\* lines 173-209
P2_PrecipitationTrend(c) ==
    Show(IF HasPrecipitation(c) THEN Chart(c, cPrecipitation, "fig2") ELSE c,
         "text_precipitation_pattern")

\* the period written over Year instead of into a new column
P2_Distribution_over_year(c) ==
    Show(IF HasTempMean(c)
         THEN Show(Chart(Derive(c, cYear, PeriodOf), cTemp_Mean, "fig3"), "period_metrics")
         ELSE c,
         "text_distribution")

\* lines 215-258
P2_Distribution(c) ==
    Show(IF HasTempMean(c)
         THEN Show(Chart(Derive(c, cPeriod, PeriodOf), cTemp_Mean, "fig3"), "period_metrics")
         ELSE c,
         "text_distribution")

\* lines 264-302
P2_Heatmap(c) ==
    Show(IF HasTempMean(c) THEN Chart(c, cTemp_Mean, "fig4") ELSE c, "text_seasonal")

\* lines 309-341
P2_PrecipitationBox(c) ==
    Show(IF HasPrecipitation(c) THEN Chart(c, cPrecipitation, "fig5") ELSE c,
         "text_precipitation_distribution")

Page2Body(c) ==
    P2_PrecipitationBox(P2_Heatmap(P2_Distribution(P2_PrecipitationTrend(
        P2_TrendText(P2_TemperatureTrend(Show(c, "title_2")))))))

(***************************************************************************)
(* Page "3. INTERACTIVE INSIGHTS", lines 351-595. The year and the season  *)
(* chosen filter copies of df (year_data, season_data); selected_var       *)
(* chooses the column of the decadal chart.                                *)
(***************************************************************************)
\* lines 354-433; Temp_MA is added to the copy year_data, not to df
P3_AnnualProfile(c) ==
    LET c1 == Chart(Show(c, "title_3"), cYear, "select_year")
        c2 == IF HasTempMean(c1) THEN Chart(c1, cTemp_Mean, "metric_temp") ELSE c1
        c3 == IF HasPrecipitation(c2) THEN Chart(c2, cPrecipitation, "metric_precip") ELSE c2
        c4 == Show(c3, "text_annual_profile")
    IN  IF HasTempMean(c4) THEN Chart(c4, cTemp_Mean, "fig7") ELSE c4

\* lines 441-511
P3_Decadal(c, selected_var) ==
    Show(IF HasTempMean(c) /\ HasPrecipitation(c)
         THEN LET plot_var == IF selected_var = "Temperature"
                              THEN cTemp_Mean ELSE cPrecipitation
              IN  Chart(Derive(Show(c, "radio_variable"), cDecade, DecadeOf),
                        plot_var,
                        IF selected_var = "Temperature"
                        THEN "fig8_temperature" ELSE "fig8_precipitation")
         ELSE c,
         "text_decadal")

\* lines 518-595
P3_Seasonal(c) ==
    LET c1 == Chart(c, cSeason, "select_season")
        c2 == IF HasTempMean(c1) THEN Chart(c1, cTemp_Mean, "fig9a") ELSE c1
        c3 == IF HasPrecipitation(c2) THEN Chart(c2, cPrecipitation, "fig9b") ELSE c2
    IN  Show(c3, "text_seasonal_pattern")

Page3Body(c, selected_var) == P3_Seasonal(P3_Decadal(P3_AnnualProfile(c), selected_var))

\* lines 118-126
Page1Body(c) == Show(Show(c, "title_1"), "text_context")

\* lines 597-617
Page4Body(c) == Show(Show(c, "title_4"), "text_conclusion")

(***************************************************************************)
(* The rest of a script run, lines 103-617: the page of the sidebar radio. *)
(***************************************************************************)
Render(p, c) ==
    /\ pc = "loaded"
    /\ page' = p
    /\ df' = c.df
    /\ rendered' = c.rendered
    /\ exc' = c.exc
    /\ pc' = IF c.exc = "none" THEN "done" ELSE "crashed"
    /\ UNCHANGED <<file, cache, parses, messages, source>>

Page1 == Render("1. THE PROBLEM", Page1Body(Ctx(df)))

Page2 == Render("2. ANALYSIS", Page2Body(Ctx(df)))

Page3 ==
    \E selected_var \in {"Temperature", "Precipitation"} :
        Render("3. INTERACTIVE INSIGHTS", Page3Body(Ctx(df), selected_var))

Page4 == Render("4. CONCLUSION", Page4Body(Ctx(df)))

Next == load_data \/ Page1 \/ Page2 \/ Page3 \/ Page4

Spec == Init /\ [][Next]_vars

(***************************************************************************)
(* What the claims read: the fields of the file as they are on disk, and   *)
(* the table load_data returned (the memo holds it).                       *)
(***************************************************************************)
FilePresent == "missing" \notin DOMAIN file

Loaded == ~IsNone(cache)

\* the position of column c in the header of the file
Pos(c) == CHOOSE j \in DOMAIN file.header : file.header[j] = c

\* the field of column c in the i-th data row of the file
Field(i, c) == file.rows[i][Pos(c)]

\* the first column of the header whose lowered name contains one of pats
HasLike(pats) == \E j \in DOMAIN file.header : ContainsAny(file.header[j], pats)

FirstLike(pats) ==
    file.header[CHOOSE j \in DOMAIN file.header :
                    /\ ContainsAny(file.header[j], pats)
                    /\ \A i \in 1..(j - 1) : ~ContainsAny(file.header[i], pats)]

\* the date source as the specification resolves it
ExpectedDateSource == IF HasLike(DatePatterns) THEN FirstLike(DatePatterns) ELSE file.header[1]

Missing(v) == v.k = "na"

Unparseable(v) == v.k = "txt"

\* the Timestamp a parseable field stands for
Parsed(v) == IF v.k = "datestr" THEN Ts(v.y, v.m, v.d, 0) ELSE Ts(1970, 1, 1, v.p)

\* the Date of every row of the table is the parsed field of column c
DateFrom(c) ==
    \A i \in DOMAIN cache.rows :
        cache.rows[i].val[cDate] = Parsed(Field(cache.rows[i].idx + 1, c))

\* the index labels of the rows of the table
Labels == {cache.rows[i].idx : i \in DOMAIN cache.rows}

\* no column that enters arithmetic holds a string
NoTextInTemperatures ==
    \A i \in DOMAIN file.rows : \A j \in DOMAIN file.header :
        ContainsAny(file.header[j], TempPatterns) => file.rows[i][j].k \in {"num", "na"}

(***************************************************************************)
(* C1 (as stated): a row whose date field cannot be parsed is dropped and  *)
(* the load still succeeds. Refuted: pd.to_datetime raises on such a field *)
(* and the whole load fails.                                               *)
(***************************************************************************)
C1_BadDateRowDropped ==
    (FilePresent /\ parses > 0 /\ NoTextInTemperatures)
        => /\ Loaded
           /\ Labels = {i - 1 : i \in {j \in DOMAIN file.rows :
                            ~Missing(Field(j, ExpectedDateSource))
                            /\ ~Unparseable(Field(j, ExpectedDateSource))}}

(***************************************************************************)
(* C1 (amended): a row whose date field is empty is dropped and the load   *)
(* succeeds with the other rows; a date field that is present but cannot   *)
(* be parsed makes the whole load fail: nothing is returned and the script *)
(* run is stopped.                                                         *)
(***************************************************************************)
C1_MissingDroppedBadFails ==
    (FilePresent /\ parses > 0)
        => IF \E i \in DOMAIN file.rows : Unparseable(Field(i, ExpectedDateSource))
           THEN ~Loaded /\ pc = "stopped" /\ IsNone(df) /\ messages # <<>>
           ELSE NoTextInTemperatures
                    => /\ Loaded
                       /\ Labels = {i - 1 : i \in {j \in DOMAIN file.rows :
                                        ~Missing(Field(j, ExpectedDateSource))}}

\* a load that succeeded and dropped the row with the empty date, keeping another
C1_Witness ==
    /\ FilePresent /\ Loaded /\ pc = "loaded" /\ source = "body"
    /\ Len(file.rows) = 2
    /\ Missing(Field(1, ExpectedDateSource))
    /\ Labels = {1}

(***************************************************************************)
(* C2 (as stated): a column named exactly "Date" is the date source        *)
(* wherever it stands in the header. Refuted by a header with an earlier   *)
(* column whose name contains "date" or "time".                            *)
(***************************************************************************)
C2_ExactDateAlwaysSource ==
    (FilePresent /\ Loaded /\ cDate \in Range(file.header)) => DateFrom(cDate)

\* some column before "Date" has a name that contains "date" or "time"
EarlierDateLike ==
    \E j \in 1..(Pos(cDate) - 1) : ContainsAny(file.header[j], DatePatterns)

(***************************************************************************)
(* C2 (amended): a column named exactly "Date" is the date source when no  *)
(* column before it in the header has a name containing "date" or "time"   *)
(* (case-insensitive); otherwise the first such earlier column is.         *)
(***************************************************************************)
C2_ExactDateUnlessEarlier ==
    (FilePresent /\ Loaded /\ cDate \in Range(file.header))
        => IF EarlierDateLike
           THEN DateFrom(FirstLike(DatePatterns))
           ELSE DateFrom(cDate)

\* "Date" is not the first column, nothing before it is date-like, and it is used
C2_Witness ==
    /\ FilePresent /\ Loaded /\ pc = "loaded"
    /\ cDate \in Range(file.header)
    /\ Pos(cDate) > 1
    /\ ~EarlierDateLike
    /\ \E j \in DOMAIN file.header : j > Pos(cDate) /\ ContainsAny(file.header[j], DatePatterns)
    /\ cache.rows # <<>>
    /\ DateFrom(cDate)

(***************************************************************************)
(* C3: the date source is the first column in header order whose name      *)
(* contains "date" or "time" case-insensitively, and the first column of   *)
(* the table when no name does.                                            *)
(***************************************************************************)
C3_DateSourceResolution ==
    (FilePresent /\ Loaded) => DateFrom(ExpectedDateSource)

\* no date-like name in a header of several columns: the first column is parsed
C3_Witness ==
    /\ FilePresent /\ Loaded /\ pc = "loaded"
    /\ ~HasLike(DatePatterns)
    /\ Len(file.header) >= 2
    /\ cache.rows # <<>>
    /\ DateFrom(file.header[1])
    /\ ~DateFrom(file.header[2])

(***************************************************************************)
(* C4: with temp_cols the columns of the header whose name contains temp,  *)
(* t_, tx, tn or tg, Temp_Mean is the first of them whose name contains    *)
(* mean, avg, tg or moy; else, with two or more, the row-wise average of   *)
(* the first two; else the single one; and it is absent exactly when       *)
(* temp_cols is empty.                                                     *)
(***************************************************************************)
HeaderTempCols == Filter(file.header, TempPatterns)

\* m is the average of a and b: NaN when either is missing
IsAverage(m, a, b) ==
    IF IsNum(a) /\ IsNum(b) THEN IsNum(m) /\ 2 * m.p = (a.p + b.p) * m.q
    ELSE Missing(m)

C4_TempMeanSelection ==
    (FilePresent /\ Loaded) =>
        LET tc == HeaderTempCols
            mc == Filter(tc, MeanPatterns)
        IN  /\ (cTemp_Mean \notin Columns(cache)) <=> (tc = <<>>)
            /\ \A i \in DOMAIN cache.rows :
                  LET r == cache.rows[i]
                  IN  IF tc = <<>> THEN TRUE
                      ELSE IF mc # <<>> THEN r.val[cTemp_Mean] = Field(r.idx + 1, mc[1])
                      ELSE IF Len(tc) >= 2
                      THEN IsAverage(r.val[cTemp_Mean],
                                     Field(r.idx + 1, tc[1]), Field(r.idx + 1, tc[2]))
                      ELSE r.val[cTemp_Mean] = Field(r.idx + 1, tc[1])

\* the scenario of the specification: TX = 10 and TN = 0 give Temp_Mean = 5
C4_Witness ==
    /\ FilePresent /\ Loaded /\ pc = "loaded"
    /\ file.header = ScenarioHeader
    /\ \E i \in DOMAIN cache.rows :
          /\ cache.rows[i].val[nTX] = Num(10)
          /\ cache.rows[i].val[nTN] = Num(0)
          /\ cache.rows[i].val[cTemp_Mean] = Num(5)

LoadFailed == parses > 0 /\ ~Loaded

\* what makes the body raise
MustFail ==
    \/ ~FilePresent
    \/ \E i \in DOMAIN file.rows : Unparseable(Field(i, ExpectedDateSource))
    \/ /\ Filter(HeaderTempCols, MeanPatterns) = <<>>
       /\ Len(HeaderTempCols) >= 2
       /\ \E i \in DOMAIN file.rows : \E j \in 1..2 :
             Field(i, HeaderTempCols[j]).k \notin {"num", "na"}

C6_FailedLoadHalts ==
    /\ (parses > 0 /\ MustFail) => LoadFailed
    /\ LoadFailed =>
          /\ pc = "stopped"
          /\ messages # <<>>
          /\ messages[1] = IF FilePresent
                            THEN "error: Erreur lors du chargement des donnees"
                            ELSE "error: Fichier non trouve"
          /\ IsNone(df)
          /\ page = "none"
          /\ rendered = {}

\* the file is there and a string in a temperature column made the load fail
C6_Witness ==
    /\ FilePresent /\ LoadFailed /\ pc = "stopped"
    /\ \A i \in DOMAIN file.rows : ~Unparseable(Field(i, ExpectedDateSource))
    /\ parses = MaxParses

(***************************************************************************)
(* C7: Precipitation is the first column in header order whose name        *)
(* contains precip, rain, rr, pluvio or pluie (case-insensitive); when no  *)
(* name does, the table has no Precipitation and every page skips its      *)
(* precipitation sections without raising.                                 *)
(***************************************************************************)
PrecipitationSections ==
    {"fig2", "fig5", "metric_precip", "radio_variable", "fig8_temperature",
     "fig8_precipitation", "fig9b"}

C7_PrecipitationResolution ==
    (FilePresent /\ Loaded) =>
        IF HasLike(PrecipPatterns)
        THEN /\ cPrecipitation \in Columns(cache)
             /\ \A i \in DOMAIN cache.rows :
                   cache.rows[i].val[cPrecipitation] =
                       Field(cache.rows[i].idx + 1, FirstLike(PrecipPatterns))
        ELSE /\ cPrecipitation \notin Columns(cache)
             /\ ~IsNone(df) => cPrecipitation \notin Columns(df)
             /\ rendered \cap PrecipitationSections = {}
             /\ exc # "KeyError"

\* page 3 rendered in full on a table with Temp_Mean and no Precipitation
C7_Witness ==
    /\ FilePresent /\ Loaded /\ pc = "done" /\ page = "3. INTERACTIVE INSIGHTS"
    /\ ~HasLike(PrecipPatterns)
    /\ cTemp_Mean \in Columns(df)
    /\ {"metric_temp", "fig7", "fig9a", "text_seasonal_pattern"} \subseteq rendered

(***************************************************************************)
(* C8: Season is a total function of Month alone: Winter for 12, 1, 2,     *)
(* Spring for 3..5, Summer for 6..8, Fall for 9..11, so every row of the   *)
(* table has one of the four seasons.                                      *)
(***************************************************************************)
C8_SeasonOfMonth ==
    Loaded =>
        \A i \in DOMAIN cache.rows :
            LET month == cache.rows[i].val[cMonth]
                season == cache.rows[i].val[cSeason]
            IN  /\ IsNum(month) /\ month.q = 1 /\ month.p \in 1..12
                /\ season.k = "str"
                /\ season.s \in {"Winter", "Spring", "Summer", "Fall"}
                /\ (season.s = "Winter") <=> (month.p \in {12, 1, 2})
                /\ (season.s = "Spring") <=> (month.p \in 3..5)
                /\ (season.s = "Summer") <=> (month.p \in 6..8)
                /\ (season.s = "Fall") <=> (month.p \in 9..11)

\* a row of December is in the table, as Winter
C8_Witness ==
    /\ Loaded /\ pc = "loaded"
    /\ \E i \in DOMAIN cache.rows :
          /\ cache.rows[i].val[cMonth] = Num(12)
          /\ cache.rows[i].val[cSeason] = Str("Winter")

(***************************************************************************)
(* C9 (as stated): once loaded, the table is read-only: no page adds,      *)
(* changes or removes a column or a value of it. Refuted: page 2 and page  *)
(* 3 assign a new column to the df they were given.                        *)
(***************************************************************************)
C9_TableReadOnly == ~IsNone(df) => df = cache

(***************************************************************************)
(* C9 (amended): once loaded, no page changes or removes a column or a     *)
(* value that load_data produced, and the memoized table is never written; *)
(* the pages write two columns of the df of the run and no other: Period   *)
(* (page 2, when Temp_Mean is present) and Decade (page 3, when Temp_Mean  *)
(* and Precipitation are present), both computed from Year.                *)
(***************************************************************************)
C9_PagesOnlyAddPeriodAndDecade ==
    ~IsNone(df) =>
        /\ Loaded
        /\ SubSeq(df.cols, 1, Len(cache.cols)) = cache.cols
        /\ Columns(df) \ Columns(cache) \subseteq {cPeriod, cDecade}
        /\ Len(df.rows) = Len(cache.rows)
        /\ \A i \in DOMAIN cache.rows :
              /\ df.rows[i].idx = cache.rows[i].idx
              /\ \A c \in Columns(cache) : df.rows[i].val[c] = cache.rows[i].val[c]
        /\ (cPeriod \in Columns(df))
              <=> (page = "2. ANALYSIS" /\ cTemp_Mean \in Columns(cache))
        /\ (cDecade \in Columns(df))
              <=> (page = "3. INTERACTIVE INSIGHTS"
                   /\ cTemp_Mean \in Columns(cache) /\ cPrecipitation \in Columns(cache))
        /\ cPeriod \in Columns(df) =>
              \A i \in DOMAIN df.rows :
                  df.rows[i].val[cPeriod] =
                      IF df.rows[i].val[cYear].p <= 2004
                      THEN Str("1989-2004") ELSE Str("2005-2024")
        /\ cDecade \in Columns(df) =>
              \A i \in DOMAIN df.rows :
                  /\ df.rows[i].val[cDecade].p % 10 = 0
                  /\ df.rows[i].val[cYear].p - df.rows[i].val[cDecade].p \in 0..9

\* page 3 has added Decade to the rows of the df of the run
C9_Witness ==
    /\ ~IsNone(df) /\ pc = "done" /\ page = "3. INTERACTIVE INSIGHTS"
    /\ cDecade \in Columns(df)
    /\ cDecade \notin Columns(cache)
    /\ \E i \in DOMAIN df.rows : df.rows[i].val[cDecade] = Num(2000)

(***************************************************************************)
(* C10: after one successful load, every later script run of the process   *)
(* gets the table from the memo: the file is not parsed again, the result  *)
(* is the cached one, and the body of load_data has run once.              *)
(***************************************************************************)
C10_LoadedOnce ==
    /\ [](Loaded => parses = 1)
    /\ [][Loaded => /\ cache' = cache
                    /\ parses' = parses
                    /\ pc' = "loaded" => (df' = cache /\ source' = "memo")]_vars

\* a page rendered in a run whose table came from the memo
C10_Witness ==
    /\ Loaded /\ source = "memo" /\ pc = "done" /\ parses = 1
    /\ cache.rows # <<>>

(***************************************************************************)
(* C11 (as stated): when the table has no Temp_Mean, rendering any of the  *)
(* four pages completes without error. Refuted: the narrative text of page *)
(* 2 formats temp_change (line 168), which is bound only inside the        *)
(* Temp_Mean presence check (line 160), and raises NameError.              *)
(***************************************************************************)
C11_NoTempMeanPagesComplete ==
    (Loaded /\ cTemp_Mean \notin Columns(cache) /\ page # "none")
        => (pc = "done" /\ exc = "none")

\* page 2 on a table without Temp_Mean: the run ends on NameError after the
\* title, before any other element of the page
C11_Witness ==
    /\ Loaded /\ cTemp_Mean \notin Columns(cache)
    /\ page = "2. ANALYSIS" /\ pc = "crashed" /\ exc = "NameError"
    /\ rendered = {"title_2"}

(***************************************************************************)
(* C12: Temp_Max is the first temp_cols entry, in header order, whose name *)
(* contains max or tx, and Temp_Min the first whose name contains min or   *)
(* tn, whatever columns gave Temp_Mean; each is absent exactly when no     *)
(* temp_cols entry matches its pattern, and neither is present when        *)
(* Temp_Mean is absent.                                                    *)
(***************************************************************************)
C12_TempMaxMinSelection ==
    (FilePresent /\ Loaded) =>
        LET tc == HeaderTempCols
            xc == Filter(tc, MaxPatterns)
            nc == Filter(tc, MinPatterns)
        IN  /\ (cTemp_Max \in Columns(cache)) <=> (xc # <<>>)
            /\ (cTemp_Min \in Columns(cache)) <=> (nc # <<>>)
            /\ cTemp_Mean \notin Columns(cache)
                  => (cTemp_Max \notin Columns(cache) /\ cTemp_Min \notin Columns(cache))
            /\ \A i \in DOMAIN cache.rows :
                  LET r == cache.rows[i]
                  IN  /\ xc # <<>> => r.val[cTemp_Max] = Field(r.idx + 1, xc[1])
                      /\ nc # <<>> => r.val[cTemp_Min] = Field(r.idx + 1, nc[1])

\* TX, the first of two maximum columns, gives Temp_Max and also enters the
\* average that gives Temp_Mean; Tmax, no temperature column, is passed over
C12_Witness ==
    /\ FilePresent /\ Loaded /\ pc = "loaded"
    /\ file.header = <<nTmax, nTX, nT_max>>
    /\ cTemp_Min \notin Columns(cache)
    /\ \E i \in DOMAIN cache.rows :
          /\ cache.rows[i].val[nTmax] = Num(11)
          /\ cache.rows[i].val[nTX] = Num(21)
          /\ cache.rows[i].val[nT_max] = Num(31)
          /\ cache.rows[i].val[cTemp_Mean] = Num(26)
          /\ cache.rows[i].val[cTemp_Max] = Num(21)

====
